---------------------------- MODULE Spec2Model ----------------------------
(***************************************************************************)
(* Model of devel/src/BuildFW.py: the universal-framework build script.    *)
(* One pipeline is a sequence of master invocations of the script; each    *)
(* master invocation may start one slave invocation (through xcodebuild)   *)
(* and blocks until it has exited.  The two processes share the           *)
(* per-platform build-state files and the build products on disk.          *)
(***************************************************************************)
EXTENDS Naturals, Sequences, FiniteSets, TLC

(* ------------------------------ bounds --------------------------------- *)

\* Number of master invocations of the script in one behaviour.
MaxInvocations == 2

\* Number of times a platform is cleaned in one behaviour.
MaxCleans == 1

\* Header passes explored.
MaxPasses == 3

\* Bundle steps of the script explored.
MaxCalls == 3

\* Entries in the frameworks build phase of a project.
MaxPhaseFiles == 3

(* ------------------------- environment values -------------------------- *)

\* os.environ['SUPPORTED_PLATFORMS'].split(' ')
SupportedPlatforms == <<"iphonesimulator", "iphoneos">>

Platforms == {SupportedPlatforms[i] : i \in DOMAIN SupportedPlatforms}

\* os.environ['ARCHS'].split(' ') in the environment of each platform.
ArchsOf(platform) ==
    IF platform = "iphoneos" THEN <<"armv7", "arm64">> ELSE <<"i386">>

AllArchs == UNION {{ArchsOf(q)[i] : i \in DOMAIN ArchsOf(q)} : q \in Platforms}

\* The two processes: the master invocation and the slave it starts.
Procs == {"M", "S"}

\* Python's None, and JSON's null.
None == "None"
JNull == "null"

\* Value of an absent UFW_MASTER_PLATFORM variable.
NoMarker == "<unset>"

(* ------------------------------ BuildState ----------------------------- *)

\* BuildState.get_platform_path
get_platform_path(platform) ==
    "tmp/Release-" \o platform \o "/UFW.build/Objects-normal/ufw_build_state.json"

StatePaths == {get_platform_path(q) : q \in Platforms}

\* The object BuildState.reset leaves behind.
reset(self) ==
    [platforms |-> SupportedPlatforms,
     last_completion |-> 0,
     slave_platform |-> None,
     slave_architectures |-> <<>>,
     slave_linked_archive_paths |-> <<>>,
     slave_built_fw_path |-> None,
     slave_built_embedded_fw_path |-> None]

\* Project.get_linked_archive_path: the archive Xcode links per architecture.
get_linked_archive_path(architecture) == "obj/" \o architecture \o "/UFW"

\* Project.get_linked_ufw_archive_path
get_linked_ufw_archive_path(architecture) ==
    get_linked_archive_path(architecture) \o ".ufwbuild"

\* Project.local_linked_archive_paths
local_linked_archive_paths(platform) ==
    [i \in DOMAIN ArchsOf(platform) |->
        get_linked_ufw_archive_path(ArchsOf(platform)[i])]

\* Project.local_built_fw_path
local_built_fw_path(platform) == "build/Release-" \o platform \o "/UFW.framework"

\* Project.local_built_embedded_fw_path: splitext(...)[0] + ".embeddedframework"
local_built_embedded_fw_path(platform) ==
    "build/Release-" \o platform \o "/UFW.embeddedframework"

\* BuildState.set_slave_properties, called with the Project's local values.
set_slave_properties_mutant_no_paths(self, platform) ==
    [self EXCEPT !.slave_platform = platform,
                 !.slave_architectures = ArchsOf(platform),
                 !.slave_linked_archive_paths = local_linked_archive_paths(platform)]

set_slave_properties_mutant_no_platform(self, platform) ==
    [self EXCEPT !.slave_architectures = ArchsOf(platform),
                 !.slave_linked_archive_paths = local_linked_archive_paths(platform),
                 !.slave_built_fw_path = local_built_fw_path(platform),
                 !.slave_built_embedded_fw_path = local_built_embedded_fw_path(platform)]

set_slave_properties(self, platform) ==
    [self EXCEPT !.slave_platform = platform,
                 !.slave_architectures = ArchsOf(platform),
                 !.slave_linked_archive_paths = local_linked_archive_paths(platform),
                 !.slave_built_fw_path = local_built_fw_path(platform),
                 !.slave_built_embedded_fw_path = local_built_embedded_fw_path(platform)]

\* json.dumps(self.__dict__): None becomes null, the rest keeps its shape.
json_dumps(d) ==
    [d EXCEPT !.slave_platform = IF @ = None THEN JNull ELSE @,
              !.slave_built_fw_path = IF @ = None THEN JNull ELSE @,
              !.slave_built_embedded_fw_path = IF @ = None THEN JNull ELSE @]

\* json.loads of a document json.dumps wrote: null becomes None.
json_loads(doc) ==
    [doc EXCEPT !.slave_platform = IF @ = JNull THEN None ELSE @,
                !.slave_built_fw_path = IF @ = JNull THEN None ELSE @,
                !.slave_built_embedded_fw_path = IF @ = JNull THEN None ELSE @]

\* Contents of a path that may hold a state file.
Absent == [kind |-> "absent"]
Corrupt == [kind |-> "corrupt"]
JsonFile(d) == [kind |-> "json", text |-> json_dumps(d)]

\* BuildState.load_from_json: <<>> stands for None, <<d>> for a loaded dict;
\* json.loads raises ValueError on a file that is no JSON document.
load_from_json(fs, filename) ==
    IF fs[filename].kind = "absent" THEN [raised |-> FALSE, value |-> <<>>]
    ELSE IF fs[filename].kind = "corrupt" THEN [raised |-> TRUE, value |-> <<>>]
    ELSE [raised |-> FALSE, value |-> <<json_loads(fs[filename].text)>>]

\* dict(self.__dict__.items() + other.items()): later items win.
dict_merge(self, other) ==
    [k \in (DOMAIN self) \cup (DOMAIN other) |->
        IF k \in DOMAIN other THEN other[k] ELSE self[k]]

\* l[1:] and l[:-1] of a Python list.
py_tail(l) == IF Len(l) = 0 THEN <<>> ELSE Tail(l)
py_front(l) == IF Len(l) = 0 THEN <<>> ELSE SubSeq(l, 1, Len(l) - 1)

\* The test of BuildState.reload: the copies disagree or were not loaded.
reload_must_reset_mutant_first_wins(dicts) == dicts[1] = <<>>

reload_must_reset(dicts) ==
    (~(py_tail(dicts) = py_front(dicts))) \/ dicts[1] = <<>>

\* BuildState.reload: [raised, state].  The files are read in the order of
\* self.platforms after the reset; the first unparseable one raises.
reload(self, fs) ==
    LET fresh == reset(self)
        loads == [i \in DOMAIN fresh.platforms |->
                    load_from_json(fs, get_platform_path(fresh.platforms[i]))]
        dicts == [i \in DOMAIN loads |-> loads[i].value]
    IN IF \E i \in DOMAIN loads : loads[i].raised
       THEN [raised |-> TRUE, state |-> fresh]
       ELSE IF reload_must_reset(dicts)
       THEN [raised |-> FALSE, state |-> reset(fresh)]
       ELSE [raised |-> FALSE, state |-> dict_merge(fresh, dicts[1][1])]

\* BuildState.persist with save_to_json: every platform's file gets the state.
persist(self, fs) ==
    [f \in DOMAIN fs |->
        IF \E i \in DOMAIN self.platforms : f = get_platform_path(self.platforms[i])
        THEN JsonFile(self) ELSE fs[f]]

(* ------------------------------ utilities ------------------------------ *)

\* is_master: os.environ.get('UFW_MASTER_PLATFORM', PLATFORM_NAME) == PLATFORM_NAME
is_master_mutant_needs_marker(platform_name, marker) == marker = platform_name

is_master_mutant_ignores_marker(platform_name, marker) == TRUE

is_master(platform_name, marker) ==
    (IF marker = NoMarker THEN platform_name ELSE marker) = platform_name

\* run_build: rebuild_needed starts True; the master replaces it, when the
\* primary executable exists, by getmtime(local_exe_path) > last_completion.
rebuild_test_mutant_inverted(master, exe_exists, exe_mtime, last_completion) ==
    IF master /\ exe_exists THEN ~(exe_mtime > last_completion) ELSE TRUE

rebuild_test_mutant_not_older(master, exe_exists, exe_mtime, last_completion) ==
    IF master /\ exe_exists THEN exe_mtime >= last_completion ELSE TRUE

rebuild_test(master, exe_exists, exe_mtime, last_completion) ==
    IF master /\ exe_exists THEN exe_mtime > last_completion ELSE TRUE

\* __main__ after run_build returned: if issued_warnings: if
\* config_fail_on_warnings: error_code = 1.
error_code_after_build_mutant_any_warning(code, warnings, fail_on_warnings) ==
    IF warnings THEN 1 ELSE code

error_code_after_build_mutant_warnings_pass(code, warnings, fail_on_warnings) == code

error_code_after_build(code, warnings, fail_on_warnings) ==
    IF warnings /\ fail_on_warnings THEN 1 ELSE code

\* Project.other_platform: the first supported platform that is not the local one.
other_platform(platform) ==
    LET rest == SelectSeq(SupportedPlatforms, LAMBDA q : q # platform)
    IN rest[1]

(* --------------------------- header hierarchy -------------------------- *)

\* The public headers a project may have, as Project.header_paths lists them
\* below the top of the hierarchy: one at the top, two with the same file
\* name in different directories, one two directories down.
AllHeaders == << <<"a.h">>, <<"A", "b.h">>, <<"B", "b.h">>, <<"B", "S", "c.h">> >>
HeaderSet == {AllHeaders[i] : i \in DOMAIN AllHeaders}

\* Files below the public headers folder are paths relative to it.
\* top_level_file_path: the folder plus the last entry of the path list.
top_level_file_path(path_list) == <<path_list[Len(path_list)]>>

\* full_file_path: the folder plus all entries of the path list.
full_file_path(path_list) == path_list

\* os.path.isfile, and "file is below directory dir".
isfile(files, f) == f \in files
IsUnder(dir, f) == Len(f) > Len(dir) /\ SubSeq(f, 1, Len(dir)) = dir

\* The subdirectories of the folder itself.
TopDirs(files) == {f[1] : f \in {g \in files : Len(g) > 1}}

\* remove_subdirs: every subdirectory whose name is not in ignore_files goes,
\* with all that is below it.
remove_subdirs_mutant_inverted(files, ignore_files) ==
    {f \in files : ~(Len(f) > 1 /\ f[1] \in ignore_files)}

remove_subdirs(files, ignore_files) ==
    {f \in files : ~(Len(f) > 1 /\ f[1] \notin ignore_files)}

\* remove_path: the file, or the directory with all that is below it.
remove_path(files, path) == {f \in files : f # path /\ ~IsUnder(path, f)}

\* move_file: nothing happens when source and destination coincide or the
\* source is no file; otherwise the destination is replaced by the source.
move_file(files, src, dst) ==
    IF src = dst \/ ~isfile(files, src) THEN files
    ELSE (remove_path(files, dst) \ {src}) \cup {dst}

\* Project.movable_headers_relative_to: the headers, in project order.
movable_headers_relative_to(paths) == SelectSeq(AllHeaders, LAMBDA h : h \in paths)

\* build_deep_header_hierarchy: the headers that are not at the top level of
\* the folder now.
ignore_headers(files, movable_headers) ==
    SelectSeq(movable_headers, LAMBDA x : ~isfile(files, top_level_file_path(x)))

\* build_deep_header_hierarchy: for header in movable_headers: move_file(...)
RECURSIVE move_headers(_, _)
move_headers(files, movable_headers) ==
    IF movable_headers = <<>> THEN files
    ELSE move_headers(move_file(files, top_level_file_path(Head(movable_headers)),
                                full_file_path(Head(movable_headers))),
                      Tail(movable_headers))

\* build_deep_header_hierarchy: the folder after remove_subdirs, and after
\* the moves.
build_deep_header_hierarchy(files, movable_headers) ==
    LET ignored == ignore_headers(files, movable_headers)
        pruned == remove_subdirs(files, {ignored[i][1] : i \in DOMAIN ignored})
    IN [pruned |-> pruned, files |-> move_headers(pruned, movable_headers)]

(* ---------------------------- bundle assembly -------------------------- *)

\* Paths below BUILT_PRODUCTS_DIR are sequences of names.  WRAPPER_NAME,
\* the embedded bundle beside it, EXECUTABLE_NAME and FRAMEWORK_VERSION.
fw_name == "UFW.framework"
fw_path == <<fw_name>>
embedded_path == <<"UFW.embeddedframework">>
EXECUTABLE_NAME == "UFW"
FRAMEWORK_VERSION == "A"

\* The entries a Resources directory may hold, and the suffix of each name.
ResourceNames == <<"Info.plist", "en.lproj", "icon.png">>
NameSuffix(x) ==
    CASE x = "Info.plist" -> ".plist"
      [] x = "en.lproj" -> ".lproj"
      [] x = "icon.png" -> ".png"
      [] OTHER -> ""
endswith(x, suffix) == NameSuffix(x) = suffix

\* A tree maps the paths that exist to what is there.
DirNode == [kind |-> "dir", to |-> <<>>]
FileNode == [kind |-> "file", to |-> <<>>]
LinkNode(link_to) == [kind |-> "link", to |-> link_to]

\* The answer of a system call for a path that does not resolve.
ENOENT == <<"<ENOENT>">>

\* Symbolic links followed while one path is resolved.
MaxLinkDepth == 4

\* Path resolution as os.stat does it: from the real directory "done", name
\* by name, following symbolic links relative to the directory they are in.
RECURSIVE stat_path(_, _, _, _)
stat_path(t, done, rest, fuel) ==
    IF rest = <<>> THEN done
    ELSE IF rest[1] = ".." THEN stat_path(t, py_front(done), Tail(rest), fuel)
    ELSE LET here == Append(done, rest[1])
         IN IF here \notin DOMAIN t THEN ENOENT
            ELSE IF t[here].kind = "link"
            THEN IF fuel = 0 THEN ENOENT
                 ELSE stat_path(t, done, t[here].to \o Tail(rest), fuel - 1)
            ELSE IF t[here].kind = "file" /\ Tail(rest) # <<>> THEN ENOENT
            ELSE stat_path(t, here, Tail(rest), fuel)

\* os.path.exists and os.path.isdir follow symbolic links.
path_exists(t, path) == stat_path(t, <<>>, path, MaxLinkDepth) # ENOENT
path_isdir(t, path) ==
    LET real == stat_path(t, <<>>, path, MaxLinkDepth)
    IN real # ENOENT /\ (real = <<>> \/ t[real].kind = "dir")

\* os.listdir of a directory that exists.
listdir(t, path) ==
    LET real == stat_path(t, <<>>, path, MaxLinkDepth)
    IN {q[Len(q)] : q \in {r \in DOMAIN t : Len(r) = Len(real) + 1 /\ IsUnder(real, r)}}

\* os.path.abspath(link_path + "/../" + link_to): ".." is cancelled against
\* the name before it, without looking at the disk.
RECURSIVE normpath(_, _)
normpath(done, rest) ==
    IF rest = <<>> THEN done
    ELSE IF rest[1] = ".." THEN normpath(py_front(done), Tail(rest))
    ELSE normpath(Append(done, rest[1]), Tail(rest))

\* attempt_symlink: [raised, tree].  os.stat raises when the target does not
\* resolve; os.symlink raises when link_path is there but does not resolve.
attempt_symlink_mutant_no_stat(t, link_path, link_to) ==
    IF ~path_exists(t, link_path)
    THEN IF link_path \in DOMAIN t
         THEN [raised |-> TRUE, tree |-> t]
         ELSE [raised |-> FALSE,
               tree |-> [q \in DOMAIN t \cup {link_path} |->
                           IF q = link_path THEN LinkNode(link_to) ELSE t[q]]]
    ELSE [raised |-> FALSE, tree |-> t]

attempt_symlink(t, link_path, link_to) ==
    IF ~path_exists(t, normpath(<<>>, (link_path \o <<"..">>) \o link_to))
    THEN [raised |-> TRUE, tree |-> t]
    ELSE IF ~path_exists(t, link_path)
    THEN IF link_path \in DOMAIN t \/ ~path_isdir(t, py_front(link_path))
         THEN [raised |-> TRUE, tree |-> t]
         ELSE [raised |-> FALSE,
               tree |-> [q \in DOMAIN t \cup {link_path} |->
                           IF q = link_path THEN LinkNode(link_to) ELSE t[q]]]
    ELSE [raised |-> FALSE, tree |-> t]

\* add_symlinks_to_framework: [raised, tree]; the first call that raises
\* ends it.
add_symlinks_to_framework(t) ==
    LET current == fw_path \o <<"Versions", "Current">>
        r1 == attempt_symlink(t, current, <<FRAMEWORK_VERSION>>)
        r2 == IF ~r1.raised /\ path_isdir(r1.tree, current \o <<"Headers">>)
              THEN attempt_symlink(r1.tree, fw_path \o <<"Headers">>,
                                   <<"Versions", "Current", "Headers">>)
              ELSE r1
        r3 == IF ~r2.raised /\ path_isdir(r2.tree, current \o <<"Resources">>)
              THEN attempt_symlink(r2.tree, fw_path \o <<"Resources">>,
                                   <<"Versions", "Current", "Resources">>)
              ELSE r2
    IN IF r3.raised THEN r3
       ELSE attempt_symlink(r3.tree, fw_path \o <<EXECUTABLE_NAME>>,
                            <<"Versions", "Current", EXECUTABLE_NAME>>)

\* remove_path on a tree: the entry and all that is below it.
rmtree(t, path) == [q \in {r \in DOMAIN t : r # path /\ ~IsUnder(path, r)} |-> t[q]]

\* ensure_path_exists: os.makedirs of the path.
ensure_path_exists(t, path) ==
    [q \in DOMAIN t \cup {SubSeq(path, 1, k) : k \in 1..Len(path)} |->
        IF q \in DOMAIN t THEN t[q] ELSE DirNode]

\* copy_overwrite: [raised, tree].  The destination is removed, its parent
\* made, and the source copied entry by entry, symbolic links as links;
\* shutil.copytree raises when the source is no directory.
copy_overwrite(t, src, dst) ==
    LET cleared == ensure_path_exists(rmtree(t, dst), py_front(dst))
        copied == {q \in DOMAIN cleared : q = src \/ IsUnder(src, q)}
        at(q) == dst \o SubSeq(q, Len(src) + 1, Len(q))
        from(q) == src \o SubSeq(q, Len(dst) + 1, Len(q))
    IN IF src \notin DOMAIN cleared \/ cleared[src].kind # "dir"
       THEN [raised |-> TRUE, tree |-> cleared]
       ELSE [raised |-> FALSE,
             tree |-> [q \in DOMAIN cleared \cup {at(r) : r \in copied} |->
                         IF q = dst \/ IsUnder(dst, q) THEN cleared[from(q)]
                         ELSE cleared[q]]]

\* build_embedded_framework: the filter over os.listdir.
is_shared_resource_mutant_all(x) == TRUE

is_shared_resource(x) == x # "Info.plist" /\ ~endswith(x, ".lproj")

\* build_embedded_framework: for file in ...: attempt_symlink(...).
RECURSIVE link_resources(_, _)
link_resources(r, files) ==
    IF r.raised \/ files = <<>> THEN r
    ELSE link_resources(
            attempt_symlink(r.tree, (embedded_path \o <<"Resources">>) \o <<Head(files)>>,
                            <<"..", fw_name, "Resources", Head(files)>>),
            Tail(files))

\* build_embedded_framework: [raised, tree].
build_embedded_framework(t) ==
    LET fresh == ensure_path_exists(rmtree(t, embedded_path), embedded_path)
        copy == copy_overwrite(fresh, fw_path, embedded_path \o <<fw_name>>)
        made == ensure_path_exists(copy.tree, embedded_path \o <<"Resources">>)
        files == SelectSeq(ResourceNames, LAMBDA x :
                    x \in listdir(t, fw_path \o <<"Resources">>) /\ is_shared_resource(x))
    IN IF copy.raised THEN copy
       ELSE IF path_isdir(t, fw_path \o <<"Resources">>)
       THEN link_resources([raised |-> FALSE, tree |-> made], files)
       ELSE [raised |-> FALSE, tree |-> made]

(* ----------------------------- link command ---------------------------- *)

\* Entries the PBXFrameworksBuildPhase of a project may list (the fileRef of
\* each): its own static library, a static framework it embeds, a system
\* framework and a system dynamic library.
LibVendor ==
    [fullPath |-> <<"Vendor", "libvendor.a">>, fileType |-> "archive.ar",
     sourceTree |-> "<group>"]
FwDep ==
    [fullPath |-> <<"Vendor", "Dep.framework">>, fileType |-> "wrapper.framework",
     sourceTree |-> "<group>"]
FwUIKit ==
    [fullPath |-> <<"System", "UIKit.framework">>, fileType |-> "wrapper.framework",
     sourceTree |-> "SDKROOT"]
LibZ ==
    [fullPath |-> <<"usr", "libz.dylib">>, fileType |-> "compiled.mach-o.dylib",
     sourceTree |-> "SDKROOT"]

FileRefs == {LibVendor, FwDep, FwUIKit, LibZ}

\* "/".join(path_list)
RECURSIVE join(_)
join(path_list) ==
    IF Len(path_list) = 0 THEN ""
    ELSE IF Len(path_list) = 1 THEN path_list[1]
    ELSE path_list[1] \o "/" \o join(Tail(path_list))

\* os.path.splitext(name)[0] of the names in use.
splitext_root(name) ==
    CASE name = "Dep.framework" -> "Dep"
      [] name = "UIKit.framework" -> "UIKit"
      [] name = "libvendor.a" -> "libvendor"
      [] name = "libz.dylib" -> "libz"
      [] OTHER -> name

\* Project.get_exe_path: a framework is a directory, its executable is one
\* level deeper and has the framework's name without the extension.
get_exe_path(node) ==
    LET path == "src" \o "/" \o join(node.fullPath)
    IN IF node.fileType = "wrapper.framework"
       THEN path \o "/" \o splitext_root(node.fullPath[Len(node.fullPath)])
       ELSE path

\* Project.__init__: static_libraries and static_frameworks are the entries of
\* the frameworks build phase of the matching file type that come from
\* neither the developer directory nor the SDK, in the order of the phase.
static_libraries(files) ==
    SelectSeq(files, LAMBDA x : x.fileType = "archive.ar"
                                  /\ x.sourceTree \notin {"DEVELOPER_DIR", "SDKROOT"})
static_frameworks(files) ==
    SelectSeq(files, LAMBDA x : x.fileType = "wrapper.framework"
                                  /\ x.sourceTree \notin {"DEVELOPER_DIR", "SDKROOT"})

\* Project.libtool_path, and BUILT_PRODUCTS_DIR + "/" + EXECUTABLE_PATH.
libtool_path == "toolchain/usr/bin/libtool"
local_exe_path(platform) ==
    "build/Release-" \o platform \o "/UFW.framework/Versions/A/UFW"

exe_paths(nodes) == [i \in DOMAIN nodes |-> get_exe_path(nodes[i])]

\* Project.get_final_link_command, for the project of a platform with the
\* given frameworks build phase and build state.
get_final_link_command_mutant_libraries_first(platform, self, files) ==
    ((((<<libtool_path, "-static">>
        \o local_linked_archive_paths(platform)) \o self.slave_linked_archive_paths)
        \o exe_paths(static_libraries(files)))
        \o exe_paths(static_frameworks(files)))
        \o <<"-o", local_exe_path(platform)>>

get_final_link_command(platform, self, files) ==
    ((((<<libtool_path, "-static">>
        \o local_linked_archive_paths(platform)) \o self.slave_linked_archive_paths)
        \o exe_paths(static_frameworks(files)))
        \o exe_paths(static_libraries(files)))
        \o <<"-o", local_exe_path(platform)>>

(* -------------------------------- state -------------------------------- *)

VARIABLES
    now,                     \* the clock, in ticks: time.time() and file mtimes;
                             \* it advances whenever Xcode builds a platform
    fs,                      \* the per-platform state files, by path
    exe,                     \* each platform's primary executable (local_exe_path)
    linkTime,                \* mtime of Xcode's per-architecture archive, 0 if missing
    ufwTime,                 \* mtime of the .ufwbuild archive, 0 if missing
    config_fail_on_warnings, \* the configuration switch of the same name
    invocations,             \* master invocations started so far
    cleans,                  \* platforms cleaned so far
    pc,                      \* where each process is in the script
    env,                     \* PLATFORM_NAME and UFW_MASTER_PLATFORM of each process
    build_state,             \* the BuildState object of each process
    issued_warnings,         \* the global of the same name, per process
    error_code,              \* the local of the same name in __main__
    rebuild_needed,          \* the local of the same name in run_build
    exit_code,               \* the exit status of a process that has ended
    raised,                  \* history: an exception was raised in this process
    roleSeen,                \* history: the results of the is_master() calls so far
    entry,                   \* history: what the entry test of run_build saw
    startTime,               \* history: the clock when the master invocation began
    fsAtStart,               \* history: the state files when the invocation began
    prevFinalized,           \* history: the invocation began right after one that
                             \* stamped last_completion and ended without an error
    events,                  \* history: the steps of the current master invocation
    header_paths,            \* project.header_paths, relative to the hierarchy top
    built_headers,           \* the files under the public headers folder
    headers_turn,            \* who acts next on the headers folder: Xcode or the script
    headers_pass,            \* history: the folder when the last pass began, and after its pruning
    passes,                  \* header passes run so far
    tree,                    \* the framework bundle and the embedded bundle on disk
    last_call,               \* history: the last bundle step and how it ended
    calls,                   \* bundle steps run so far
    link_project,            \* the project and build state a final link command is built for
    cmd                      \* the final link command built, <<>> before

\* The variables of the build pipeline, of the header restoration and of the
\* bundle assembly.
pipeline == <<now, fs, exe, linkTime, ufwTime, config_fail_on_warnings, invocations, cleans,
              pc, env, build_state, issued_warnings, error_code, rebuild_needed,
              exit_code, raised, roleSeen, entry, startTime, fsAtStart,
              prevFinalized, events>>
headers == <<header_paths, built_headers, headers_turn, headers_pass, passes>>
bundle == <<tree, last_call, calls>>
linking == <<link_project, cmd>>

vars == <<pipeline, headers, bundle, linking>>

disk == <<fs, exe, linkTime, ufwTime>>
locals == <<build_state, issued_warnings, error_code, rebuild_needed>>

\* No file at local_exe_path.  An executable records who linked it ("xcode":
\* Xcode's own single-platform link, "final_link": the script's universal
\* link) and the architectures linked into it.
NoExe == [exists |-> FALSE, mtime |-> 0, kind |-> "none", archs |-> {}]

ArchSet(platform) == {ArchsOf(platform)[i] : i \in DOMAIN ArchsOf(platform)}
NoEntry == [exe_exists |-> FALSE, exe_newer |-> FALSE]

\* A state in which the slave has reported and nobody has finalized.
SlaveReported == set_slave_properties(reset(<<>>), "iphoneos")

\* A state written while SUPPORTED_PLATFORMS listed the platforms in the
\* other order.
WrittenUnderOtherOrder ==
    [reset(<<>>) EXCEPT !.platforms = <<SupportedPlatforms[2], SupportedPlatforms[1]>>]

\* What a state file may hold before the first invocation.
InitFiles ==
    {Absent, Corrupt, JsonFile(reset(<<>>)),
     JsonFile([reset(<<>>) EXCEPT !.last_completion = 1]),
     JsonFile(SlaveReported),
     JsonFile(WrittenUnderOtherOrder)}

\* The headers folder of a clean build directory, before Xcode has copied
\* anything into it.
HeadersIdle ==
    /\ header_paths = HeaderSet
    /\ built_headers = {}
    /\ headers_turn = "xcode"
    /\ headers_pass = [before |-> {}, pruned |-> {}]
    /\ passes = 0

\* What Xcode's build leaves in the framework bundle: the directory of the
\* current version with, each optionally, the public headers folder, the
\* executable and a Resources directory with some entries (an .lproj entry is
\* a directory).  All else on disk stays as it is.
xcode_framework(t, has_headers, has_exe, has_resources, resources) ==
    LET version == fw_path \o <<"Versions", FRAMEWORK_VERSION>>
        base == ensure_path_exists(rmtree(t, version), version)
        added == (IF has_headers THEN {version \o <<"Headers">>} ELSE {})
                 \cup (IF has_exe THEN {version \o <<EXECUTABLE_NAME>>} ELSE {})
                 \cup (IF has_resources
                       THEN {version \o <<"Resources">>}
                               \cup {version \o <<"Resources", x>> : x \in resources}
                       ELSE {})
    IN [q \in DOMAIN base \cup added |->
          IF q \in DOMAIN base THEN base[q]
          ELSE IF q = version \o <<EXECUTABLE_NAME>> THEN FileNode
          ELSE IF Len(q) = Len(version) + 2 /\ ~endswith(q[Len(q)], ".lproj") THEN FileNode
          ELSE DirNode]

\* A bundle built while FRAMEWORK_VERSION was "B", with its links in place.
OldVersionTree ==
    [q \in {fw_path, fw_path \o <<"Versions">>, fw_path \o <<"Versions", "B">>,
            fw_path \o <<"Versions", "B", EXECUTABLE_NAME>>,
            fw_path \o <<"Versions", "Current">>, fw_path \o <<EXECUTABLE_NAME>>} |->
        IF q = fw_path \o <<"Versions", "Current">> THEN LinkNode(<<"B">>)
        ELSE IF q = fw_path \o <<EXECUTABLE_NAME>>
        THEN LinkNode(<<"Versions", "Current", EXECUTABLE_NAME>>)
        ELSE IF q = fw_path \o <<"Versions", "B", EXECUTABLE_NAME>> THEN FileNode
        ELSE DirNode]

ResourceSet == {ResourceNames[i] : i \in DOMAIN ResourceNames}

\* The bundle as it is before anything is built.
BundleIdle ==
    /\ tree = <<>>
    /\ last_call = [op |-> "none", raised |-> FALSE]
    /\ calls = 0

\* No final link command has been built.
LinkingIdle ==
    /\ link_project = [platform |-> SupportedPlatforms[1],
                       build_state |-> reset(<<>>), files |-> <<>>]
    /\ cmd = <<>>

PipelineInit ==
    /\ now = 1
    /\ fs \in [StatePaths -> InitFiles]
    /\ exe = [q \in Platforms |-> NoExe]
    /\ linkTime = [a \in AllArchs |-> 0]
    /\ ufwTime = [a \in AllArchs |-> 0]
    /\ config_fail_on_warnings \in BOOLEAN
    /\ invocations = 0
    /\ cleans = 0
    /\ pc = [p \in Procs |-> "idle"]
    /\ env = [p \in Procs |-> [PLATFORM_NAME |-> SupportedPlatforms[1],
                               UFW_MASTER_PLATFORM |-> NoMarker]]
    /\ build_state = [p \in Procs |-> reset(<<>>)]
    /\ issued_warnings = [p \in Procs |-> FALSE]
    /\ error_code = [p \in Procs |-> 0]
    /\ rebuild_needed = [p \in Procs |-> TRUE]
    /\ exit_code = [p \in Procs |-> 0]
    /\ raised = [p \in Procs |-> FALSE]
    /\ roleSeen = [p \in Procs |-> {}]
    /\ entry = [p \in Procs |-> NoEntry]
    /\ startTime = 0
    /\ fsAtStart = fs
    /\ prevFinalized = FALSE
    /\ events = <<>>

\* The pipeline is explored over a bundle that stays as it is: its bundle
\* steps only succeed or fail.
Init == PipelineInit /\ HeadersIdle /\ BundleIdle /\ LinkingIdle

PlatformOf(p) == env[p].PLATFORM_NAME
IsMaster(p) == is_master(env[p].PLATFORM_NAME, env[p].UFW_MASTER_PLATFORM)
Ended(p) == pc[p] \in {"idle", "exited", "crashed"}
Event(p, op) == [proc |-> p, op |-> op]

\* What Xcode's own build phases leave before the script runs: when anything
\* was recompiled, fresh per-architecture archives and a freshly linked
\* single-platform executable.
XcodeProducts(platform, t, rebuilt) ==
    [exe |-> IF rebuilt
             THEN [exe EXCEPT ![platform] = [exists |-> TRUE, mtime |-> t,
                                             kind |-> "xcode",
                                             archs |-> ArchSet(platform)]]
             ELSE exe,
     linkTime |-> IF rebuilt
                  THEN [a \in AllArchs |->
                          IF \E i \in DOMAIN ArchsOf(platform) : ArchsOf(platform)[i] = a
                          THEN t ELSE linkTime[a]]
                  ELSE linkTime]

\* The master starts in the given environment; the slave of the previous
\* invocation is forgotten.
NewMaster(platform, marker) ==
    /\ pc' = [M |-> "load", S |-> "idle"]
    /\ env' = [M |-> [PLATFORM_NAME |-> platform, UFW_MASTER_PLATFORM |-> marker],
               S |-> [PLATFORM_NAME |-> SupportedPlatforms[1],
                      UFW_MASTER_PLATFORM |-> NoMarker]]
    /\ build_state' = [p \in Procs |-> reset(<<>>)]
    /\ issued_warnings' = [p \in Procs |-> FALSE]
    /\ error_code' = [p \in Procs |-> 0]
    /\ rebuild_needed' = [p \in Procs |-> TRUE]
    /\ exit_code' = [p \in Procs |-> 0]
    /\ raised' = [p \in Procs |-> FALSE]
    /\ roleSeen' = [p \in Procs |-> {}]
    /\ entry' = [p \in Procs |-> NoEntry]

\* The slave starts in the environment the master's command line gives it.
NewSlave(platform, marker) ==
    /\ env' = [env EXCEPT !["S"] = [PLATFORM_NAME |-> platform,
                                    UFW_MASTER_PLATFORM |-> marker]]
    /\ UNCHANGED <<locals, exit_code, raised, roleSeen, entry>>

(* ------------------------------- actions ------------------------------- *)

\* The outer build pipeline runs Xcode's phases for one platform and then
\* the script, as the process M.
StartMaster ==
    /\ Ended("M") /\ Ended("S")
    /\ invocations < MaxInvocations
    /\ \E platform \in Platforms, rebuilt \in BOOLEAN :
       \E marker \in {NoMarker, platform} :
          LET built == XcodeProducts(platform, now + 1, rebuilt)
          IN /\ exe' = built.exe
             /\ linkTime' = built.linkTime
             /\ NewMaster(platform, marker)
    /\ now' = now + 1
    /\ invocations' = invocations + 1
    /\ startTime' = now + 1
    /\ fsAtStart' = fs
    /\ prevFinalized' = (pc["M"] = "exited" /\ ~raised["M"]
                          /\ \E i \in DOMAIN events : events[i] = Event("M", "stamp"))
    /\ events' = <<>>
    /\ UNCHANGED <<fs, ufwTime, config_fail_on_warnings, cleans>>
    /\ UNCHANGED <<headers, bundle, linking>>

\* Cleaning a platform in Xcode removes its build directories, and with them
\* its copy of the state file.  The processes of the last invocation are gone.
CleanPlatform ==
    /\ Ended("M") /\ Ended("S")
    /\ cleans < MaxCleans
    /\ cleans' = cleans + 1
    /\ pc' = [p \in Procs |-> "idle"]
    /\ \E q \in Platforms :
          LET mine(a) == \E i \in DOMAIN ArchsOf(q) : ArchsOf(q)[i] = a
          IN /\ fs' = [fs EXCEPT ![get_platform_path(q)] = Absent]
             /\ exe' = [exe EXCEPT ![q] = NoExe]
             /\ linkTime' = [a \in AllArchs |-> IF mine(a) THEN 0 ELSE linkTime[a]]
             /\ ufwTime' = [a \in AllArchs |-> IF mine(a) THEN 0 ELSE ufwTime[a]]
    /\ UNCHANGED <<now, config_fail_on_warnings, invocations, env, locals,
                   exit_code, raised, roleSeen, entry, startTime, fsAtStart,
                   prevFinalized, events>>
    /\ UNCHANGED <<headers, bundle, linking>>

\* __main__, build_state = BuildState(): the constructor reloads the state.
\* It runs before the try statement, so an exception ends the process with a
\* traceback and exit status 1, and nothing is persisted.
LoadState(p) ==
    /\ pc[p] = "load"
    /\ LET r == reload(build_state[p], fs)
       IN IF r.raised
          THEN /\ pc' = [pc EXCEPT ![p] = "crashed"]
               /\ raised' = [raised EXCEPT ![p] = TRUE]
               /\ exit_code' = [exit_code EXCEPT ![p] = 1]
               /\ roleSeen' = roleSeen
               /\ UNCHANGED build_state
          ELSE /\ pc' = [pc EXCEPT ![p] = "run_build"]
               /\ build_state' = [build_state EXCEPT ![p] = r.state]
               \* prefix = "M" if is_master() else "S"
               /\ roleSeen' = [roleSeen EXCEPT ![p] = @ \cup {IsMaster(p)}]
               /\ UNCHANGED <<raised, exit_code>>
    /\ events' = Append(events, Event(p, "load"))
    /\ UNCHANGED <<now, disk, config_fail_on_warnings, invocations, cleans,
                   env, issued_warnings, error_code, rebuild_needed, entry,
                   startTime, fsAtStart, prevFinalized>>
    /\ UNCHANGED <<headers, bundle, linking>>

\* An exception leaves run_build for the except clause of __main__.
Raise(p) ==
    /\ pc' = [pc EXCEPT ![p] = "except"]
    /\ raised' = [raised EXCEPT ![p] = TRUE]

\* run_build up to the test of rebuild_needed: the project is loaded, the
\* master checks its sources, issues its warnings and decides whether a
\* rebuild is needed.
LoadProject(p) ==
    /\ pc[p] = "run_build"
    /\ \E project_ok \in BOOLEAN, has_sources \in BOOLEAN, warns \in BOOLEAN :
          LET x == exe[PlatformOf(p)]
              needed == rebuild_test(IsMaster(p), x.exists, x.mtime,
                                     build_state[p].last_completion)
          IN IF ~project_ok \/ (IsMaster(p) /\ ~has_sources)
             THEN /\ Raise(p)
                  /\ UNCHANGED <<issued_warnings, rebuild_needed, entry>>
             ELSE /\ issued_warnings' =
                        [issued_warnings EXCEPT ![p] = @ \/ (IsMaster(p) /\ warns)]
                  /\ rebuild_needed' = [rebuild_needed EXCEPT ![p] = needed]
                  /\ entry' = [entry EXCEPT ![p] =
                        [exe_exists |-> x.exists,
                         exe_newer |-> x.exists /\ x.mtime > build_state[p].last_completion]]
                  /\ pc' = [pc EXCEPT ![p] =
                        IF ~needed THEN "completed"
                        ELSE IF IsMaster(p) THEN "persist" ELSE "set_slave"]
                  /\ UNCHANGED raised
    /\ roleSeen' = [roleSeen EXCEPT ![p] = @ \cup {IsMaster(p)}]
    /\ events' = Append(events, Event(p, "project"))
    /\ UNCHANGED <<now, disk, config_fail_on_warnings, invocations, cleans,
                   env, build_state, error_code, exit_code, startTime,
                   fsAtStart, prevFinalized>>
    /\ UNCHANGED <<headers, bundle, linking>>

\* run_build, master: build_state.persist() before the slave is started.
MasterPersist(p) ==
    /\ pc[p] = "persist"
    /\ fs' = persist(build_state[p], fs)
    /\ pc' = [pc EXCEPT ![p] = "slave_build"]
    /\ events' = Append(events, Event(p, "persist"))
    /\ UNCHANGED <<now, exe, linkTime, ufwTime, config_fail_on_warnings,
                   invocations, cleans, env, locals, exit_code, raised,
                   roleSeen, entry, startTime, fsAtStart, prevFinalized>>
    /\ UNCHANGED <<headers, bundle, linking>>

\* run_slave_build: xcodebuild for the other platform, with the marker
\* UFW_MASTER_PLATFORM set to the master's platform.  xcodebuild may fail
\* before it reaches the script phase; otherwise the script runs as process S.
RunSlaveBuild(p) ==
    /\ pc[p] = "slave_build"
    /\ Ended("S")
    /\ now' = now + 1
    /\ \E compiles \in BOOLEAN, rebuilt \in BOOLEAN :
          IF ~compiles
          THEN /\ Raise(p)
               /\ UNCHANGED <<exe, linkTime, env, locals, exit_code, roleSeen,
                              entry>>
          ELSE LET built == XcodeProducts(other_platform(PlatformOf(p)), now + 1, rebuilt)
               IN /\ exe' = built.exe
                  /\ linkTime' = built.linkTime
                  /\ NewSlave(other_platform(PlatformOf(p)), PlatformOf(p))
                  /\ pc' = [pc EXCEPT ![p] = "slave_wait", !["S"] = "load"]
    /\ events' = Append(events, Event(p, "slave_build"))
    /\ UNCHANGED <<fs, ufwTime, config_fail_on_warnings, invocations, cleans,
                   startTime, fsAtStart, prevFinalized>>
    /\ UNCHANGED <<headers, bundle, linking>>

\* print_and_call_slave_build: if p.returncode != 0: raise.
slave_build_failed_mutant_never(returncode) == FALSE

slave_build_failed(returncode) == returncode # 0

\* print_and_call_slave_build: p.communicate() returns when the process it
\* started has ended.
communicate_returns_mutant_no_wait(slave_pc) == TRUE

communicate_returns(slave_pc) == slave_pc \in {"exited", "crashed"}

\* print_and_call_slave_build after communicate(): a non-zero return code
\* raises CalledProcessError.
SlaveReturn(p) ==
    /\ pc[p] = "slave_wait"
    /\ communicate_returns(pc["S"])
    /\ IF slave_build_failed(exit_code["S"])
       THEN Raise(p)
       ELSE /\ pc' = [pc EXCEPT ![p] = "reload"]
            /\ UNCHANGED raised
    /\ events' = Append(events, Event(p, "slave_returned"))
    /\ UNCHANGED <<now, disk, config_fail_on_warnings, invocations, cleans,
                   env, locals, exit_code, roleSeen, entry, startTime,
                   fsAtStart, prevFinalized>>
    /\ UNCHANGED <<headers, bundle, linking>>

\* run_build, master: build_state.reload() after the slave has returned.
MasterReload(p) ==
    /\ pc[p] = "reload"
    /\ LET r == reload(build_state[p], fs)
       IN IF r.raised
          THEN /\ Raise(p)
               /\ build_state' = [build_state EXCEPT ![p] = r.state]
          ELSE /\ pc' = [pc EXCEPT ![p] = "link"]
               /\ build_state' = [build_state EXCEPT ![p] = r.state]
               /\ UNCHANGED raised
    /\ events' = Append(events, Event(p, "reload"))
    /\ UNCHANGED <<now, disk, config_fail_on_warnings, invocations, cleans,
                   env, issued_warnings, error_code, rebuild_needed,
                   exit_code, roleSeen, entry, startTime, fsAtStart,
                   prevFinalized>>
    /\ UNCHANGED <<headers, bundle, linking>>

\* run_build, slave: build_state.set_slave_properties(...).
SlaveSetProperties(p) ==
    /\ pc[p] = "set_slave"
    /\ build_state' = [build_state EXCEPT ![p] = set_slave_properties(@, PlatformOf(p))]
    /\ pc' = [pc EXCEPT ![p] = "link"]
    /\ events' = Append(events, Event(p, "set_slave_properties"))
    /\ UNCHANGED <<now, disk, config_fail_on_warnings, invocations, cleans,
                   env, issued_warnings, error_code, rebuild_needed,
                   exit_code, raised, roleSeen, entry, startTime, fsAtStart,
                   prevFinalized>>
    /\ UNCHANGED <<headers, bundle, linking>>

\* are_link_targets_clean: every architecture has both archives, and the
\* .ufwbuild archive is not older than the one Xcode linked.  A missing file
\* (OSError) and a zero modification time both mean "not clean".
are_link_targets_clean_mutant_always(platform) == TRUE

are_link_targets_clean_mutant_strict(platform) ==
    \A a \in ArchSet(platform) :
        ~(linkTime[a] = 0 \/ ufwTime[a] = 0 \/ linkTime[a] >= ufwTime[a])

are_link_targets_clean(platform) ==
    \A a \in ArchSet(platform) :
        ~(linkTime[a] = 0 \/ ufwTime[a] = 0 \/ linkTime[a] > ufwTime[a])

\* The architecture whose .ufwbuild archive is at a path.
ArchOfPath(path) == CHOOSE a \in AllArchs : get_linked_ufw_archive_path(a) = path

\* Project.get_final_link_command: the archives given to the final libtool
\* call (static dependencies left out), local ones first.
final_link_inputs(self, platform) ==
    local_linked_archive_paths(platform) \o self.slave_linked_archive_paths

\* run_build: if not are_link_targets_clean(project): relink_project(project).
\* relink_project links the architectures in order, each by one libtool call
\* that may fail; the master then runs the final libtool call, which fails
\* when an input archive is missing.
Link(p) ==
    /\ pc[p] = "link"
    /\ IF are_link_targets_clean(PlatformOf(p))
       THEN /\ pc' = [pc EXCEPT ![p] = "headers"]
            /\ events' = Append(events, Event(p, "link_clean"))
            /\ UNCHANGED <<exe, ufwTime, raised, roleSeen>>
       ELSE \E n \in 0..Len(ArchsOf(PlatformOf(p))), final_ok \in BOOLEAN :
              LET archs == ArchsOf(PlatformOf(p))
                  linked == {archs[i] : i \in 1..n}
                  newUfw == [a \in AllArchs |-> IF a \in linked THEN now ELSE ufwTime[a]]
                  inputs == final_link_inputs(build_state[p], PlatformOf(p))
                  inArchs == {ArchOfPath(inputs[i]) : i \in DOMAIN inputs}
                  singles == [i \in 1..n |-> Event(p, "link_single_arch")]
              IN /\ ufwTime' = newUfw
                 /\ IF n < Len(archs)
                    THEN /\ Raise(p)
                         /\ events' = events \o singles
                         /\ UNCHANGED <<exe, roleSeen>>
                    ELSE /\ roleSeen' = [roleSeen EXCEPT ![p] = @ \cup {IsMaster(p)}]
                         /\ IF ~IsMaster(p)
                            THEN /\ pc' = [pc EXCEPT ![p] = "headers"]
                                 /\ events' = events \o singles
                                 /\ UNCHANGED <<exe, raised>>
                            ELSE IF final_ok /\ \A a \in inArchs : newUfw[a] > 0
                            THEN /\ exe' = [exe EXCEPT ![PlatformOf(p)] =
                                               [exists |-> TRUE, mtime |-> now,
                                                kind |-> "final_link", archs |-> inArchs]]
                                 /\ pc' = [pc EXCEPT ![p] = "headers"]
                                 /\ events' = (events \o singles) \o <<Event(p, "final_link")>>
                                 /\ UNCHANGED raised
                            ELSE /\ Raise(p)
                                 /\ events' = events \o singles
                                 /\ UNCHANGED exe
    /\ UNCHANGED <<now, fs, linkTime, config_fail_on_warnings, invocations,
                   cleans, env, locals, exit_code, entry, startTime,
                   fsAtStart, prevFinalized>>
    /\ UNCHANGED <<headers, bundle, linking>>

\* A step of run_build that works on the bundle only: it succeeds or raises.
BundleStep(p, from, to, op, ok) ==
    /\ pc[p] = from
    /\ IF ok
       THEN /\ pc' = [pc EXCEPT ![p] = to]
            /\ UNCHANGED raised
       ELSE Raise(p)
    /\ events' = Append(events, Event(p, op))
    /\ UNCHANGED <<now, disk, config_fail_on_warnings, invocations, cleans,
                   env, locals, exit_code, roleSeen, entry, startTime,
                   fsAtStart, prevFinalized>>
    /\ UNCHANGED <<headers, bundle, linking>>

\* build_deep_header_hierarchy (config_deep_header_hierarchy is True).
Headers(p) ==
    \E ok \in BOOLEAN : BundleStep(p, "headers", "symlinks", "headers", ok)

\* add_symlinks_to_framework: attempt_symlink stats the link target first, so
\* linking the executable raises when there is no executable.
Symlinks(p) ==
    \E ok \in BOOLEAN :
        BundleStep(p, "symlinks", "embedded", "symlinks", ok /\ exe[PlatformOf(p)].exists)

\* build_embedded_framework; afterwards the master goes on to the copy.
Embedded(p) ==
    /\ pc[p] = "embedded"
    /\ \E ok \in BOOLEAN :
          IF ok
          THEN /\ pc' = [pc EXCEPT ![p] = IF IsMaster(p) THEN "finalize" ELSE "completed"]
               /\ roleSeen' = [roleSeen EXCEPT ![p] = @ \cup {IsMaster(p)}]
               /\ UNCHANGED raised
          ELSE /\ Raise(p)
               /\ UNCHANGED roleSeen
    /\ events' = Append(events, Event(p, "embedded"))
    /\ UNCHANGED <<now, disk, config_fail_on_warnings, invocations, cleans,
                   env, locals, exit_code, entry, startTime, fsAtStart,
                   prevFinalized>>
    /\ UNCHANGED <<headers, bundle, linking>>

\* The platform whose bundle is built at a path.
PlatformOfFw(path) == CHOOSE q \in Platforms : local_built_fw_path(q) = path

\* run_build, master, after the bundles are assembled: copy both bundles to
\* the paths the slave reported, reset the state and stamp last_completion.
\* copy_overwrite removes the destination and then copies the tree (copy2
\* keeps modification times); it raises when the destination is None, and when
\* it is the source itself, which the removal has just deleted.
MasterFinalize(p) ==
    /\ pc[p] = "finalize"
    /\ LET dst == build_state[p].slave_built_fw_path
           src == local_built_fw_path(PlatformOf(p))
       IN IF dst = None
          THEN /\ Raise(p)
               /\ events' = Append(events, Event(p, "copy_failed"))
               /\ UNCHANGED <<exe, build_state>>
          ELSE \E copies \in 0..2 :
                 /\ exe' = [exe EXCEPT ![PlatformOfFw(dst)] =
                               IF copies = 0 \/ dst = src THEN NoExe
                               ELSE exe[PlatformOf(p)]]
                 /\ IF copies < 2 \/ dst = src
                    THEN /\ Raise(p)
                         /\ events' = Append(events, Event(p, "copy_failed"))
                         /\ UNCHANGED build_state
                    ELSE /\ build_state' = [build_state EXCEPT ![p] =
                                [reset(@) EXCEPT !.last_completion = now]]
                         /\ pc' = [pc EXCEPT ![p] = "completed"]
                         /\ events' = events \o <<Event(p, "copy"), Event(p, "stamp")>>
                         /\ UNCHANGED raised
    /\ UNCHANGED <<now, fs, linkTime, ufwTime, config_fail_on_warnings,
                   invocations, cleans, env, issued_warnings, error_code,
                   rebuild_needed, exit_code, roleSeen, entry, startTime,
                   fsAtStart, prevFinalized>>
    /\ UNCHANGED <<headers, bundle, linking>>

\* __main__ after run_build has returned: warnings fail the build when
\* config_fail_on_warnings is set.
Completed(p) ==
    /\ pc[p] = "completed"
    /\ error_code' = [error_code EXCEPT ![p] =
            error_code_after_build(@, issued_warnings[p], config_fail_on_warnings)]
    /\ pc' = [pc EXCEPT ![p] = "finally"]
    /\ UNCHANGED <<now, disk, config_fail_on_warnings, invocations, cleans,
                   env, build_state, issued_warnings, rebuild_needed,
                   exit_code, raised, roleSeen, entry, startTime, fsAtStart,
                   prevFinalized, events>>
    /\ UNCHANGED <<headers, bundle, linking>>

\* __main__, except Exception: the state is reset and the build fails.
ExceptHandler(p) ==
    /\ pc[p] = "except"
    /\ build_state' = [build_state EXCEPT ![p] = reset(@)]
    /\ error_code' = [error_code EXCEPT ![p] = 1]
    /\ pc' = [pc EXCEPT ![p] = "finally"]
    /\ events' = Append(events, Event(p, "reset"))
    /\ UNCHANGED <<now, disk, config_fail_on_warnings, invocations, cleans,
                   env, issued_warnings, rebuild_needed, exit_code, raised,
                   roleSeen, entry, startTime, fsAtStart, prevFinalized>>
    /\ UNCHANGED <<headers, bundle, linking>>

\* __main__, finally: build_state.persist() and sys.exit(error_code).
Finally(p) ==
    /\ pc[p] = "finally"
    /\ fs' = persist(build_state[p], fs)
    /\ exit_code' = [exit_code EXCEPT ![p] = error_code[p]]
    /\ pc' = [pc EXCEPT ![p] = "exited"]
    /\ events' = events \o <<Event(p, "persist"), Event(p, "exit")>>
    /\ UNCHANGED <<now, exe, linkTime, ufwTime, config_fail_on_warnings,
                   invocations, cleans, env, locals, raised, roleSeen, entry,
                   startTime, fsAtStart, prevFinalized>>
    /\ UNCHANGED <<headers, bundle, linking>>

Next ==
    \/ StartMaster
    \/ CleanPlatform
    \/ \E p \in Procs : LoadState(p)
    \/ \E p \in Procs : LoadProject(p)
    \/ \E p \in Procs : MasterPersist(p)
    \/ \E p \in Procs : RunSlaveBuild(p)
    \/ \E p \in Procs : SlaveReturn(p)
    \/ \E p \in Procs : MasterReload(p)
    \/ \E p \in Procs : SlaveSetProperties(p)
    \/ \E p \in Procs : Link(p)
    \/ \E p \in Procs : Headers(p)
    \/ \E p \in Procs : Symlinks(p)
    \/ \E p \in Procs : Embedded(p)
    \/ \E p \in Procs : MasterFinalize(p)
    \/ \E p \in Procs : Completed(p)
    \/ \E p \in Procs : ExceptHandler(p)
    \/ \E p \in Procs : Finally(p)

Spec == Init /\ [][Next]_vars

(* ------------------- the pipeline with a clean during a build ---------- *)

\* A platform is cleaned while an invocation runs (xcodebuild clean from a
\* terminal, or the build directory removed): its state file, its executable
\* and its archives are gone, and the running processes go on.
CleanWhileBuilding ==
    /\ ~Ended("M")
    /\ cleans < MaxCleans
    /\ cleans' = cleans + 1
    /\ \E q \in Platforms :
          LET mine(a) == \E i \in DOMAIN ArchsOf(q) : ArchsOf(q)[i] = a
          IN /\ fs' = [fs EXCEPT ![get_platform_path(q)] = Absent]
             /\ exe' = [exe EXCEPT ![q] = NoExe]
             /\ linkTime' = [a \in AllArchs |-> IF mine(a) THEN 0 ELSE linkTime[a]]
             /\ ufwTime' = [a \in AllArchs |-> IF mine(a) THEN 0 ELSE ufwTime[a]]
    /\ UNCHANGED <<now, config_fail_on_warnings, invocations, pc, env, locals,
                   exit_code, raised, roleSeen, entry, startTime, fsAtStart,
                   prevFinalized, events>>
    /\ UNCHANGED <<headers, bundle, linking>>

NextOrClean == Next \/ CleanWhileBuilding

SpecClean == Init /\ [][NextOrClean]_vars

(* ---------------------- header restoration, by itself ------------------ *)

\* The pipeline at rest, with no state file.
PipelinePinned ==
    /\ PipelineInit
    /\ fs = [f \in StatePaths |-> Absent]
    /\ ~config_fail_on_warnings

\* Xcode's copy-headers phase: the project has some public headers, and
\* those Xcode copies land at the top level of the folder, one file per file
\* name.  A header that is nowhere in the folder is always copied.
XcodeCopiesHeaders ==
    /\ headers_turn = "xcode"
    /\ passes < MaxPasses
    /\ \E project \in (SUBSET HeaderSet) \ {{}} :
       \E copied \in SUBSET project :
          /\ \A h \in project :
                (~isfile(built_headers, top_level_file_path(h))
                    /\ ~isfile(built_headers, full_file_path(h))) => h \in copied
          /\ header_paths' = project
          /\ built_headers' = built_headers \cup {top_level_file_path(h) : h \in copied}
    /\ headers_turn' = "script"
    /\ UNCHANGED <<headers_pass, passes, pipeline, bundle, linking>>

\* run_build: build_deep_header_hierarchy(project).
BuildDeepHeaderHierarchy ==
    /\ headers_turn = "script"
    /\ LET r == build_deep_header_hierarchy(built_headers,
                                            movable_headers_relative_to(header_paths))
       IN /\ built_headers' = r.files
          /\ headers_pass' = [before |-> built_headers, pruned |-> r.pruned]
    /\ passes' = passes + 1
    /\ headers_turn' = "xcode"
    /\ UNCHANGED <<header_paths, pipeline, bundle, linking>>

HeadersInit == PipelinePinned /\ HeadersIdle /\ BundleIdle /\ LinkingIdle

HeadersNext == XcodeCopiesHeaders \/ BuildDeepHeaderHierarchy

SpecHeaders == HeadersInit /\ [][HeadersNext]_vars

(* ------------------------ bundle assembly, by itself ------------------- *)

\* Xcode builds the framework's current version, in a clean build directory
\* or in one that holds a bundle of another version.
BundleInit ==
    /\ PipelinePinned /\ HeadersIdle /\ LinkingIdle
    /\ \E old \in {<<>>, OldVersionTree} :
       \E has_headers \in BOOLEAN, has_exe \in BOOLEAN, has_resources \in BOOLEAN :
       \E resources \in SUBSET ResourceSet :
          tree = xcode_framework(old, has_headers, has_exe, has_resources, resources)
    /\ last_call = [op |-> "xcode", raised |-> FALSE]
    /\ calls = 0

\* Xcode builds again: the executable and the resources may come out
\* differently.
XcodeBuildsFramework ==
    /\ last_call.op # "xcode"
    /\ \E has_exe \in BOOLEAN, has_resources \in BOOLEAN :
       \E resources \in SUBSET ResourceSet :
          tree' = xcode_framework(tree,
                      (fw_path \o <<"Versions", FRAMEWORK_VERSION, "Headers">>) \in DOMAIN tree,
                      has_exe, has_resources, resources)
    /\ last_call' = [op |-> "xcode", raised |-> FALSE]
    /\ UNCHANGED <<calls, pipeline, headers, linking>>

\* run_build: add_symlinks_to_framework(project).
AddSymlinksToFramework ==
    /\ calls < MaxCalls
    /\ LET r == add_symlinks_to_framework(tree)
       IN /\ tree' = r.tree
          /\ last_call' = [op |-> "add_symlinks", raised |-> r.raised]
    /\ calls' = calls + 1
    /\ UNCHANGED <<pipeline, headers, linking>>

\* run_build: build_embedded_framework(project).
BuildEmbeddedFramework ==
    /\ calls < MaxCalls
    /\ LET r == build_embedded_framework(tree)
       IN /\ tree' = r.tree
          /\ last_call' = [op |-> "build_embedded", raised |-> r.raised]
    /\ calls' = calls + 1
    /\ UNCHANGED <<pipeline, headers, linking>>

BundleNext == XcodeBuildsFramework \/ AddSymlinksToFramework \/ BuildEmbeddedFramework

SpecBundle == BundleInit /\ [][BundleNext]_vars

(* ------------------------ final link command, by itself ---------------- *)

\* The frameworks build phases explored: lists of distinct entries.
PhaseLists ==
    {f \in UNION {[1..n -> FileRefs] : n \in 0..MaxPhaseFiles} :
        \A i, j \in DOMAIN f : f[i] = f[j] => i = j}

\* The build states a master may hold when it links: a fresh one, or one in
\* which the slave of either platform has reported.
LinkStates == {reset(<<>>)} \cup {set_slave_properties(reset(<<>>), q) : q \in Platforms}

\* The project of either platform is loaded and project.build_state is set.
LinkInit ==
    /\ PipelinePinned /\ HeadersIdle /\ BundleIdle
    /\ link_project \in [platform : Platforms, build_state : LinkStates, files : PhaseLists]
    /\ cmd = <<>>

\* relink_project, master: project.get_final_link_command().
GetFinalLinkCommand ==
    /\ cmd = <<>>
    /\ cmd' = get_final_link_command(link_project.platform, link_project.build_state,
                                     link_project.files)
    /\ UNCHANGED <<link_project, pipeline, headers, bundle>>

LinkNext == GetFinalLinkCommand

SpecLink == LinkInit /\ [][LinkNext]_vars

(* ------------------------------- claims -------------------------------- *)

\* A freshly reset state, written out.
FreshState ==
    [platforms |-> <<"iphonesimulator", "iphoneos">>,
     last_completion |-> 0,
     slave_platform |-> "None",
     slave_architectures |-> <<>>,
     slave_linked_archive_paths |-> <<>>,
     slave_built_fw_path |-> "None",
     slave_built_embedded_fw_path |-> "None"]

\* The document that holds a freshly reset state.
FreshFile ==
    [kind |-> "json",
     text |-> [FreshState EXCEPT !.slave_platform = "null",
                                 !.slave_built_fw_path = "null",
                                 !.slave_built_embedded_fw_path = "null"]]

AllPresent == \A f \in StatePaths : fs[f].kind = "json"
AllEqual == \A f \in StatePaths, g \in StatePaths : fs[f] = fs[g]
Did(p, op) == \E i \in DOMAIN events : events[i] = Event(p, op)

\* The steps that build something.
BuildOps ==
    {"slave_build", "link_clean", "link_single_arch", "final_link", "headers",
     "symlinks", "embedded", "copy", "copy_failed", "stamp"}

NoBuildStep == \A i \in DOMAIN events : events[i].op \notin BuildOps

\* The process has just reloaded the state and the files are as it read them:
\* after the constructor, and in the master after the slave has returned.
JustReloaded(p) == pc[p] = "run_build" \/ (p = "M" /\ pc[p] = "link")

\* The dict held in a state document, read field by field.
DocState(file) ==
    [file.text EXCEPT !.slave_platform = IF @ = "null" THEN "None" ELSE @,
                      !.slave_built_fw_path = IF @ = "null" THEN "None" ELSE @,
                      !.slave_built_embedded_fw_path = IF @ = "null" THEN "None" ELSE @]

\* C1: when every state file is absent or parseable, reload() leaves the
\* state equal to the files' shared value if all copies are present and
\* equal, and equal to a freshly reset state in every other case.
C1_ReloadAgreement ==
    \A p \in Procs :
        JustReloaded(p) =>
            IF AllPresent /\ AllEqual
            THEN \A f \in StatePaths : build_state[p] = DocState(fs[f])
            ELSE build_state[p] = FreshState

\* C1 witness: the constructor has adopted a shared value that is not fresh.
C1_Witness ==
    /\ pc["M"] = "run_build"
    /\ AllPresent /\ AllEqual
    /\ build_state["M"].last_completion = 1
    /\ build_state["M"] # FreshState

\* C2 as stated: whenever an invocation in which an error was raised has
\* ended, every state file holds a freshly reset state and the exit code is 1.
C2_ErrorLeavesFreshState ==
    \A p \in Procs :
        (raised[p] /\ pc[p] \in {"exited", "crashed"}) =>
            /\ \A f \in StatePaths : fs[f] = FreshFile
            /\ exit_code[p] = 1

\* The key steps of a round trip, in the order they happened.
KeySteps ==
    SelectSeq(events, LAMBDA e :
        e \in {Event("M", "persist"), Event("M", "slave_build"),
               Event("S", "set_slave_properties"), Event("S", "persist"),
               Event("M", "reload"), Event("M", "copy"), Event("M", "stamp")})

\* The slave fields as the slave on a platform reports them.
ReportedBy(state, platform) ==
    /\ state.slave_platform = platform
    /\ state.slave_architectures = ArchsOf(platform)
    /\ state.slave_linked_archive_paths =
          [i \in DOMAIN ArchsOf(platform) |->
              "obj/" \o ArchsOf(platform)[i] \o "/UFW.ufwbuild"]
    /\ state.slave_built_fw_path = "build/Release-" \o platform \o "/UFW.framework"
    /\ state.slave_built_embedded_fw_path =
          "build/Release-" \o platform \o "/UFW.embeddedframework"

SlaveFieldsEmpty(state) ==
    /\ state.slave_platform = "None"
    /\ state.slave_architectures = <<>>
    /\ state.slave_linked_archive_paths = <<>>
    /\ state.slave_built_fw_path = "None"
    /\ state.slave_built_embedded_fw_path = "None"

\* A master invocation that started without any state file and in which no
\* step has failed so far.
CleanRoundTrip ==
    /\ \A f \in StatePaths : fsAtStart[f] = Absent
    /\ ~raised["M"] /\ ~raised["S"]

\* C3: from no prior state and without a failure, the master persists the
\* empty state, then invokes the slave, the slave records its values and
\* persists them, the master reloads exactly those values and copies its
\* bundles to the reported paths; at exit the persisted state has a
\* last_completion after the start of the invocation and empty slave fields.
C3_RoundTrip ==
    CleanRoundTrip =>
        /\ pc["M"] = "slave_build" => \A f \in StatePaths : fs[f] = FreshFile
        /\ (pc["M"] = "slave_wait" /\ pc["S"] = "exited") =>
              \A f \in StatePaths :
                  /\ fs[f].kind = "json"
                  /\ ReportedBy(DocState(fs[f]), env["S"].PLATFORM_NAME)
        /\ pc["M"] \in {"link", "headers", "symlinks", "embedded", "finalize"} =>
              /\ ReportedBy(build_state["M"], env["S"].PLATFORM_NAME)
              /\ env["S"].PLATFORM_NAME # env["M"].PLATFORM_NAME
        /\ pc["M"] = "exited" =>
              /\ KeySteps = <<Event("M", "persist"), Event("M", "slave_build"),
                              Event("S", "set_slave_properties"), Event("S", "persist"),
                              Event("M", "reload"), Event("M", "copy"),
                              Event("M", "stamp"), Event("M", "persist")>>
              /\ exe[env["S"].PLATFORM_NAME] = exe[env["M"].PLATFORM_NAME]
              /\ \A f \in StatePaths :
                    /\ fs[f].kind = "json"
                    /\ DocState(fs[f]).last_completion > startTime
                    /\ SlaveFieldsEmpty(DocState(fs[f]))

\* C3 witness: such an invocation has run to its end.
C3_Witness ==
    /\ CleanRoundTrip
    /\ pc["M"] = "exited"
    /\ Did("M", "stamp")

\* C4 as stated: a master that finds the primary executable newer than
\* last_completion builds nothing.
C4_SkipsWhenExeNewer ==
    (IsMaster("M") /\ entry["M"].exe_exists /\ entry["M"].exe_newer) => NoBuildStep

\* C4 amended: a master that finds the primary executable present and not
\* newer than last_completion builds nothing and raises no error.
C4_SkipsWhenExeNotNewer ==
    (env["M"].UFW_MASTER_PLATFORM \in {NoMarker, env["M"].PLATFORM_NAME}
        /\ entry["M"].exe_exists /\ ~entry["M"].exe_newer) =>
            /\ NoBuildStep
            /\ ~raised["M"]

\* C4 witness: a master has ended after finding the executable not newer.
C4_Witness ==
    /\ pc["M"] = "exited"
    /\ entry["M"].exe_exists /\ ~entry["M"].exe_newer
    /\ exe[env["M"].PLATFORM_NAME].mtime <= build_state["M"].last_completion

\* C5 as stated: an invocation that started with an unparseable state file
\* does not fail in loading it, and has persisted the state when it has ended.
C5_CorruptTreatedAsMissing ==
    (pc["M"] \in {"exited", "crashed"} /\ \E f \in StatePaths : fsAtStart[f] = Corrupt) =>
        /\ pc["M"] = "exited"
        /\ AllPresent

\* C6: a master invocation right after one that finalized, finding the
\* executable not newer than last_completion, builds nothing, exits with 0
\* if no warning was issued, and leaves every state file as it was.
C6_RepeatIsNoOp ==
    (prevFinalized /\ pc["M"] = "exited"
        /\ entry["M"].exe_exists /\ ~entry["M"].exe_newer) =>
            /\ NoBuildStep
            /\ ~Did("S", "load")
            /\ (~issued_warnings["M"] => exit_code["M"] = 0)
            /\ fs = fsAtStart

\* C6 witness: such a repeated invocation has ended.
C6_Witness ==
    /\ prevFinalized /\ pc["M"] = "exited"
    /\ entry["M"].exe_exists /\ ~entry["M"].exe_newer
    /\ ~issued_warnings["M"]
    /\ fsAtStart[get_platform_path("iphoneos")].text.last_completion > 1

\* C7 as stated: when an invocation has ended, every state file exists and
\* all of them are equal.
C7_FilesAgreeAtExit ==
    \A p \in Procs :
        pc[p] \in {"exited", "crashed"} => (AllPresent /\ AllEqual)

AllOrNone(state) ==
    \/ SlaveFieldsEmpty(state)
    \/ /\ state.slave_platform # "None"
       /\ state.slave_architectures # <<>>
       /\ state.slave_linked_archive_paths # <<>>
       /\ state.slave_built_fw_path # "None"
       /\ state.slave_built_embedded_fw_path # "None"

\* C8: in every state held in memory or persisted, the five slave fields are
\* all empty or all populated.
C8_SlaveFieldsAllOrNone ==
    /\ \A p \in Procs : AllOrNone(build_state[p])
    /\ \A f \in StatePaths : fs[f].kind = "json" => AllOrNone(DocState(fs[f]))

\* C8 witness: the slave has populated the fields and persisted them.
C8_Witness ==
    /\ pc["S"] = "exited"
    /\ build_state["S"].slave_platform # "None"
    /\ \A f \in StatePaths : fs[f].kind = "json" /\ fs[f].text.slave_platform # "null"

\* C9: every is_master() call of a process returned true exactly if the
\* marker is absent or names the process's own platform, so all calls of one
\* invocation agree.
C9_IsMasterFromEnvironment ==
    \A p \in Procs :
        roleSeen[p] \subseteq
            {env[p].UFW_MASTER_PLATFORM = NoMarker
                \/ env[p].UFW_MASTER_PLATFORM = env[p].PLATFORM_NAME}

\* C9 witness: a master whose marker names its own platform and its slave
\* have both called is_master() several times.
C9_Witness ==
    /\ env["M"].UFW_MASTER_PLATFORM = env["M"].PLATFORM_NAME
    /\ roleSeen["M"] = {TRUE}
    /\ roleSeen["S"] = {FALSE}
    /\ pc["S"] = "exited" /\ pc["M"] = "exited"

\* C10: a process exits with 0 exactly if no error was raised and no warning
\* was issued or warnings do not fail the build; otherwise it exits with 1.
C10_ExitCode ==
    \A p \in Procs :
        pc[p] \in {"exited", "crashed"} =>
            exit_code[p] =
                IF ~raised[p] /\ (~issued_warnings[p] \/ ~config_fail_on_warnings)
                THEN 0 ELSE 1

\* C10 witness: a build without an error exits with 1 because of a warning.
C10_Witness ==
    /\ pc["M"] = "exited"
    /\ ~raised["M"] /\ issued_warnings["M"] /\ config_fail_on_warnings
    /\ exit_code["M"] = 1

\* The slave invocation of the current master invocation ended with a
\* non-zero code: the script of the slave exited with one, or xcodebuild
\* failed before it ran the script.
SlaveScriptFailed == exit_code["S"] # 0
XcodebuildFailed ==
    /\ Did("M", "slave_build")
    /\ raised["M"]
    /\ \A i \in DOMAIN events : events[i].proc = "M"

\* What the master does after the slave build when nothing fails.
AfterSlaveOps ==
    {"reload", "link_clean", "link_single_arch", "final_link", "headers",
     "symlinks", "embedded", "copy", "stamp"}

\* C11: when the slave invocation has ended with a non-zero code, the master
\* does not reload the state, link, restore headers, assemble bundles, copy
\* or stamp, and when it has exited its exit code is 1.
C11_SlaveFailureIsFatal ==
    (SlaveScriptFailed \/ XcodebuildFailed) =>
        /\ \A i \in DOMAIN events :
              events[i].proc = "M" => events[i].op \notin AfterSlaveOps
        /\ Did("M", "exit") => exit_code["M"] = 1
        /\ pc["M"] \notin {"reload", "link", "headers", "symlinks", "embedded",
                            "finalize", "completed"}

\* C11 witness: the slave's script has exited with 1, the master has seen
\* it return and has itself exited.
C11_Witness ==
    /\ pc["S"] = "exited" /\ exit_code["S"] = 1
    /\ Did("M", "slave_returned")
    /\ pc["M"] = "exited" /\ exit_code["M"] = 1

\* Every per-architecture .ufwbuild archive of the platform exists and is not
\* older than the archive Xcode linked for the same architecture.
ArchivesUpToDate(platform) ==
    \A a \in ArchSet(platform) :
        linkTime[a] > 0 /\ ufwTime[a] > 0 /\ ufwTime[a] >= linkTime[a]

\* The link phase of process p is the step being taken.
LinkPhase(p) == pc[p] = "link" /\ pc'[p] # "link"

\* C12: a link phase that finds every .ufwbuild archive of its platform
\* present and not older than the archive Xcode linked runs no link command
\* and changes no archive and no executable; and a link phase that has
\* linked every architecture leaves the archives in that condition, so a
\* second link phase without a new Xcode build links nothing.
C12_CleanLinkIsNoOp ==
    [][\A p \in Procs :
          LinkPhase(p) =>
             /\ ArchivesUpToDate(PlatformOf(p)) =>
                   /\ ufwTime' = ufwTime /\ exe' = exe /\ linkTime' = linkTime
                   /\ events' = Append(events, Event(p, "link_clean"))
                   /\ pc'[p] = "headers"
             /\ (pc'[p] = "headers" /\ \A a \in ArchSet(PlatformOf(p)) : linkTime[a] > 0) =>
                   ArchivesUpToDate(PlatformOf(p))']_vars

\* C12 witness: a master has passed its link phase without linking, over
\* archives that an earlier link phase produced.
C12_Witness ==
    /\ Did("M", "link_clean")
    /\ ~Did("M", "link_single_arch")
    /\ ArchivesUpToDate(PlatformOf("M"))
    /\ invocations = 2

\* C17 as stated: when a master has stamped last_completion, the executable
\* at the final path is the product of a final universal link over the
\* archives of every architecture of both platforms.
C17_StampedBuildWasLinked ==
    (pc["M"] \in {"completed", "finally", "exited"} /\ Did("M", "stamp")) =>
        /\ exe[PlatformOf("M")].kind = "final_link"
        /\ exe[PlatformOf("M")].archs = AllArchs

\* The number of per-architecture link commands process p has run.
SinglesOf(p) == Len(SelectSeq(events, LAMBDA e : e = Event(p, "link_single_arch")))

\* The link phase of p, being taken, runs one per-architecture link command
\* for every local architecture.
LinksEveryArch(p) ==
    \E n \in 0..1 :
        /\ Len(events') = Len(events) + Len(ArchsOf(PlatformOf(p))) + n
        /\ \A i \in 1..Len(ArchsOf(PlatformOf(p))) :
              events'[Len(events) + i] = Event(p, "link_single_arch")

\* C18 as stated: every link phase that goes on to the bundle steps has run
\* the per-architecture link for every local architecture, whatever the
\* staleness check said.
C18_AlwaysLinksPerArch ==
    [][\A p \in Procs : (LinkPhase(p) /\ pc'[p] = "headers") => LinksEveryArch(p)]_vars

\* C18 amended: the staleness check governs all linking.  A link phase over
\* clean archives runs no link command at all; a link phase over stale
\* archives that goes on to the bundle steps has run the per-architecture
\* link for every local architecture and, in the master, the final link.
C18_LinksExactlyWhenStale ==
    [][\A p \in Procs :
          LinkPhase(p) =>
             IF ArchivesUpToDate(PlatformOf(p))
             THEN events' = Append(events, Event(p, "link_clean"))
             ELSE pc'[p] = "headers" =>
                     /\ LinksEveryArch(p)
                     /\ IsMaster(p) <=> events'[Len(events')] = Event(p, "final_link")]_vars

\* C18 witness: in one invocation the master has linked both of its
\* architectures and run the final link, and the slave has found its
\* archives clean and linked nothing.
C18_Witness ==
    /\ SinglesOf("M") = 2 /\ Did("M", "final_link")
    /\ Did("S", "link_clean") /\ SinglesOf("S") = 0

\* The slave process has been started and has not ended.
SlaveRunning == pc["S"] \notin {"idle", "exited", "crashed"}

\* C19: while the slave process runs, the master stays blocked in the call
\* that started it: it takes no step, so it reads and writes no state file
\* and writes nothing to a bundle, and every step recorded is the slave's.
C19_MasterWaitsForSlave ==
    [][SlaveRunning =>
          /\ pc["M"] = "slave_wait" /\ pc'["M"] = "slave_wait"
          /\ build_state'["M"] = build_state["M"]
          /\ \A i \in (Len(events) + 1)..Len(events') : events'[i].proc = "S"]_vars

\* C19 witness: the slave is about to persist the state while the master,
\* which persisted before it started the slave, waits.
C19_Witness ==
    /\ pc["S"] = "finally" /\ pc["M"] = "slave_wait"
    /\ Did("M", "persist") /\ Did("S", "set_slave_properties")

\* C20 as stated: the platforms field of every BuildState object is the
\* list SUPPORTED_PLATFORMS gives, whatever the state files hold.
C20_PlatformsFixed ==
    \A p \in Procs : build_state[p].platforms = SupportedPlatforms

\* A header pass has run and Xcode has not copied anything since.
PassDone == headers_turn = "xcode" /\ passes > 0

\* The subdirectories of the headers folder the last pass removed.
RemovedDirs == TopDirs(headers_pass.before) \ TopDirs(headers_pass.pruned)

\* The header is about to be moved when the pass begins: it belongs in a
\* subdirectory and its file is at the top level of the folder.
AboutToBeMoved(h) ==
    /\ h \in header_paths
    /\ Len(h) >= 2
    /\ top_level_file_path(h) \in headers_pass.before

C14_EveryHeaderRestored ==
    PassDone =>
        \A h \in header_paths :
            IF Len(h) >= 2
            THEN full_file_path(h) \in built_headers
                    /\ top_level_file_path(h) \notin built_headers
            ELSE h \in built_headers <=> h \in headers_pass.before

\* The step being taken is a call of add_symlinks_to_framework.
AddSymlinksStep == calls' = calls + 1 /\ last_call'.op = "add_symlinks"

\* A link target of add_symlinks_to_framework does not exist when it is
\* used: the directory of the current version, or the executable below
\* Versions/Current.
LinkTargetMissing ==
    \/ ~path_exists(tree, fw_path \o <<"Versions", FRAMEWORK_VERSION>>)
    \/ ~path_exists(tree', fw_path \o <<"Versions", "Current", EXECUTABLE_NAME>>)

\* C15: a call of add_symlinks_to_framework right after one that did not
\* raise does not raise and changes nothing; no call changes or removes
\* anything that is there, a link included; and a call for which a link
\* target does not exist raises, whatever is at the link path.
C15_SymlinksIdempotent ==
    [][AddSymlinksStep =>
          /\ last_call = [op |-> "add_symlinks", raised |-> FALSE] =>
                (tree' = tree /\ ~last_call'.raised)
          /\ \A q \in DOMAIN tree : q \in DOMAIN tree' /\ tree'[q] = tree[q]
          /\ LinkTargetMissing => last_call'.raised]_vars

\* C15 witness: a second call in a row has failed over a bundle without an
\* executable, while the link to the executable, made before the executable
\* disappeared, is still there.
C15_Witness ==
    /\ calls = MaxCalls
    /\ last_call = [op |-> "add_symlinks", raised |-> TRUE]
    /\ (fw_path \o <<EXECUTABLE_NAME>>) \in DOMAIN tree
    /\ tree[fw_path \o <<"Versions", "Current">>] = LinkNode(<<FRAMEWORK_VERSION>>)
    /\ ~path_exists(tree, fw_path \o <<EXECUTABLE_NAME>>)

\* The entries of the embedded bundle's Resources directory that are links.
EmbeddedLinks ==
    {x \in ResourceSet :
        LET q == embedded_path \o <<"Resources", x>>
        IN q \in DOMAIN tree /\ tree[q].kind = "link"}

\* The entries of the Resources directory of the framework bundle.
OriginalResources ==
    IF path_isdir(tree, fw_path \o <<"Resources">>)
    THEN listdir(tree, fw_path \o <<"Resources">>)
    ELSE {}

\* C16: after build_embedded_framework the embedded Resources directory has
\* a link for exactly the entries of the framework's Resources directory
\* that are not Info.plist and do not end in .lproj, and the embedded bundle
\* holds nothing but these links, its Resources directory and the copy of
\* the framework bundle.
C16_EmbeddedResources ==
    last_call = [op |-> "build_embedded", raised |-> FALSE] =>
        /\ EmbeddedLinks =
              {x \in OriginalResources : x # "Info.plist" /\ NameSuffix(x) # ".lproj"}
        /\ \A q \in DOMAIN tree :
              IsUnder(embedded_path, q) =>
                 \/ q = embedded_path \o <<"Resources">>
                 \/ \E x \in EmbeddedLinks : q = embedded_path \o <<"Resources", x>>
                 \/ /\ IsUnder(embedded_path \o <<fw_name>>, q) \/ q = embedded_path \o <<fw_name>>
                    /\ LET original == SubSeq(q, 2, Len(q))
                       IN original \in DOMAIN tree /\ tree[original] = tree[q]

\* C16 witness: over a Resources directory with Info.plist, en.lproj and
\* icon.png, the embedded bundle has been built a second time and has a link
\* for icon.png only.
C16_Witness ==
    /\ last_call = [op |-> "build_embedded", raised |-> FALSE]
    /\ calls = MaxCalls
    /\ OriginalResources = {"Info.plist", "en.lproj", "icon.png"}
    /\ EmbeddedLinks = {"icon.png"}

\* The entries of the frameworks build phase that are static dependencies of
\* the given file type, in the order of the phase.
StaticDeps(fileType) ==
    SelectSeq(link_project.files,
              LAMBDA x : x.fileType = fileType /\ x.sourceTree = "<group>")

\* The inputs of the command built: what stands between "-static" and "-o".
LinkInputs == SubSeq(cmd, 3, Len(cmd) - 2)

\* C21: a final link command that has been built lists as inputs, in this
\* order, the current platform's per-architecture archives in the order of
\* the local architectures, the slave's archive paths of the build state in
\* their order, the executables of the static frameworks and the static
\* libraries; its output is the final product path.
C21_FinalLinkCommandOrder ==
    cmd # <<>> =>
        LET archs == ArchsOf(link_project.platform)
            slave == link_project.build_state.slave_linked_archive_paths
            fws == StaticDeps("wrapper.framework")
            libs == StaticDeps("archive.ar")
            a == Len(archs)
            b == a + Len(slave)
            c == b + Len(fws)
        IN /\ Len(cmd) >= 4
           /\ cmd[1] = libtool_path /\ cmd[2] = "-static"
           /\ Len(LinkInputs) = c + Len(libs)
           /\ \A i \in 1..a : LinkInputs[i] = get_linked_ufw_archive_path(archs[i])
           /\ \A i \in 1..Len(slave) : LinkInputs[a + i] = slave[i]
           /\ \A i \in 1..Len(fws) : LinkInputs[b + i] = get_exe_path(fws[i])
           /\ \A i \in 1..Len(libs) : LinkInputs[c + i] = get_exe_path(libs[i])
           /\ cmd[Len(cmd) - 1] = "-o"
           /\ cmd[Len(cmd)] = local_exe_path(link_project.platform)

\* C21 witness: a command has been built for a project with a static library
\* listed before a static framework and a system framework, and a build
\* state in which the slave has reported two archives.
C21_Witness ==
    /\ cmd # <<>>
    /\ link_project.platform = "iphonesimulator"
    /\ link_project.files = <<LibVendor, FwUIKit, FwDep>>
    /\ Len(link_project.build_state.slave_linked_archive_paths) = 2
    /\ LinkInputs = <<"obj/i386/UFW.ufwbuild", "obj/armv7/UFW.ufwbuild",
                      "obj/arm64/UFW.ufwbuild", "src/Vendor/Dep.framework/Dep",
                      "src/Vendor/libvendor.a">>

\* How often a process has taken a step in the current master invocation.
CountOf(p, op) == Cardinality({i \in DOMAIN events : events[i] = Event(p, op)})

\* The steps only a master takes: persisting before the slave build, the
\* slave build and the wait for it, the reload, and the copy with the stamp.
MasterOnlyPoints == {"persist", "slave_build", "slave_wait", "reload", "finalize"}

\* The events the step being taken adds to those of the current invocation.
NewEvents ==
    IF Len(events') > Len(events) /\ SubSeq(events', 1, Len(events)) = events
    THEN SubSeq(events', Len(events) + 1, Len(events'))
    ELSE <<>>

\* How often a process has taken a step once the step being taken is done.
CountAfter(p, op) == Cardinality({i \in DOMAIN events' : events'[i] = Event(p, op)})

\* What C22 says of one step of the pipeline.
C22_Step ==
    \* the slave is never at a step only a master takes, and every
    \* is_master() call in it answers no
    /\ pc'["S"] \notin MasterOnlyPoints
    /\ TRUE \notin roleSeen'["S"]
    \* a slave is started by the slave build of a master that has started none
    \* before, with the master's platform as marker and another platform
    /\ (pc["S"] # "load" /\ pc'["S"] = "load") =>
          /\ pc["M"] = "slave_build" /\ pc'["M"] = "slave_wait"
          /\ ~Did("M", "slave_build")
          /\ env'["S"].UFW_MASTER_PLATFORM = PlatformOf("M")
          /\ env'["S"].PLATFORM_NAME # PlatformOf("M")
          /\ ~is_master(env'["S"].PLATFORM_NAME, env'["S"].UFW_MASTER_PLATFORM)
    /\ (pc["S"] \notin {"idle", "exited", "crashed"}) => env'["S"] = env["S"]
    \* no step of the script is taken more often in an invocation than the
    \* script text has it: a link per local architecture, two persists in a
    \* master, every other step once
    /\ \A i \in DOMAIN NewEvents :
          LET e == NewEvents[i]
          IN IF e.op = "link_single_arch"
             THEN CountAfter(e.proc, e.op) <= Len(ArchsOf(PlatformOf(e.proc)))
             ELSE IF e = Event("M", "persist")
             THEN CountAfter(e.proc, e.op) <= 2
             ELSE CountAfter(e.proc, e.op) = 1

\* C22: a slave invocation never launches a build.  The slave is started
\* with the master's platform as marker and with another platform, every
\* is_master() call in it answers no, and it is never at a step only a master
\* takes; a master invocation starts at most one slave; and no step of the
\* script is taken more often in one invocation than the script text has it,
\* so each invocation ends after boundedly many steps of its own.
C22_SlaveNeverLaunchesBuild == [][C22_Step]_vars

\* C22 witness: the slave the master started has run its whole build, with
\* its per-architecture links, and has exited without an error while the
\* master still waits for it.
C22_Witness ==
    /\ pc["M"] = "slave_wait" /\ pc["S"] = "exited" /\ exit_code["S"] = 0
    /\ CountOf("M", "slave_build") = 1
    /\ CountOf("S", "set_slave_properties") = 1
    /\ CountOf("S", "link_single_arch") = Len(ArchsOf(PlatformOf("S")))
    /\ roleSeen["S"] = {FALSE}

\* The points of run_build between the master's reload and its stamp.
AfterReload == {"link", "headers", "symlinks", "embedded", "finalize"}

\* Every slave field of the state holds a value.
SlaveFieldsPopulated(state) ==
    /\ state.slave_platform # "None"
    /\ state.slave_architectures # <<>>
    /\ state.slave_linked_archive_paths # <<>>
    /\ state.slave_built_fw_path # "None"
    /\ state.slave_built_embedded_fw_path # "None"

\* The step being taken stamps last_completion in the master.
StampStep == ~Did("M", "stamp") /\ Did("M", "stamp")'

\* What C23 says of one step of the pipeline.
C23_Step ==
    \* the reload after the slave: copies missing or in disagreement give a
    \* fresh state (or an exception)
    /\ (pc["M"] = "reload" /\ pc'["M"] # "reload" /\ ~(AllPresent /\ AllEqual)) =>
          (pc'["M"] = "except" \/ build_state'["M"] = FreshState)
    \* with a fresh state the master keeps that state, never stamps, and its
    \* copy fails
    /\ (pc["M"] \in AfterReload /\ SlaveFieldsEmpty(build_state["M"])) =>
          /\ pc'["M"] \in AfterReload \cup {"except"}
          /\ build_state'["M"] = build_state["M"]
          /\ ~StampStep
          /\ (pc["M"] = "finalize" /\ pc'["M"] # "finalize") =>
                /\ pc'["M"] = "except"
                /\ events'[Len(events')] = Event("M", "copy_failed")
    \* a stamp is made from a state with all slave fields populated
    /\ StampStep => (pc["M"] = "finalize" /\ SlaveFieldsPopulated(build_state["M"]))
    \* the failure resets the state, and the reset state is what is persisted
    /\ (pc["M"] = "except" /\ pc'["M"] # "except") =>
          (pc'["M"] = "finally" /\ build_state'["M"] = FreshState /\ error_code'["M"] = 1)
    /\ (pc["M"] = "finally" /\ raised["M"] /\ pc'["M"] # "finally") =>
          /\ pc'["M"] = "exited" /\ exit_code'["M"] = 1
          /\ \A f \in StatePaths : fs'[f] = FreshFile

\* C23: a master stamps last_completion only from a reloaded state whose
\* slave fields are populated.  When the state files are missing or disagree
\* at the reload after the slave has returned, the reload yields a fresh
\* state; with it the master never stamps, its cross-platform copy fails, and
\* the invocation ends with exit code 1 and a fresh state in every file.
C23_StampOnlyWithSlaveFields == [][C23_Step]_vars

\* C23 witness: the slave has exited without an error, a platform was
\* cleaned before the master reloaded, the master went on with a fresh state
\* through the bundle steps, and its copy has just failed.
C23_Witness ==
    /\ pc["M"] = "except" /\ pc["S"] = "exited" /\ exit_code["S"] = 0
    /\ cleans = 1
    /\ Did("M", "reload") /\ Did("M", "embedded")
    /\ events[Len(events)] = Event("M", "copy_failed")
    /\ SlaveFieldsEmpty(build_state["M"])
    /\ ~Did("M", "stamp")

\* The master has run every build step of a rebuild pass, stamp included,
\* without an error, and has exited.
CompletedEveryStep ==
    /\ pc["M"] = "exited" /\ ~raised["M"]
    /\ Did("M", "embedded") /\ Did("M", "copy") /\ Did("M", "stamp")

\* Every state file holds the state a successful build leaves: the stamp of
\* this invocation's completion and no slave field.
FilesAsAfterSuccess ==
    \A f \in StatePaths :
        /\ fs[f].kind = "json"
        /\ DocState(fs[f]) = [FreshState EXCEPT !.last_completion = now]
        /\ now >= startTime
        /\ fsAtStart[f].kind = "json" => now > fsAtStart[f].text.last_completion

\* C24: a master that completed every build step without an error, after a
\* warning was issued and with warnings set to fail the build, has exit code
\* 1 and leaves the state files as a successful build does: each carries the
\* new last_completion stamp and empty slave fields.  Without the warning
\* the files are the same and the exit code is 0.
C24_WarningFailureKeepsStamp ==
    CompletedEveryStep =>
        /\ FilesAsAfterSuccess
        /\ exit_code["M"] = IF issued_warnings["M"] /\ config_fail_on_warnings THEN 1 ELSE 0

\* C24 witness: such a master has exited with code 1 because of a warning,
\* over state files that held an older stamp.
C24_Witness ==
    /\ CompletedEveryStep
    /\ issued_warnings["M"] /\ config_fail_on_warnings
    /\ exit_code["M"] = 1
    /\ FilesAsAfterSuccess
    /\ \A f \in StatePaths : fsAtStart[f].kind = "json" /\ fsAtStart[f].text.last_completion = 1

=============================================================================
